---- MODULE Spec2Model ----
(***************************************************************************)
(* A model of woopy, a client for the WOO exchange: the WebSocket          *)
(* listeners of woopy.py (one per endpoint URL, each reconnecting for      *)
(* ever), the queue that merges their messages, and the iterator that      *)
(* yields the merged messages to the caller.                               *)
(***************************************************************************)
EXTENDS Integers, Sequences, FiniteSets, Bags, TLC

(* ------------------------------ bounds -------------------------------- *)

\* connections established over the whole session
MaxOpens == 3

\* frames read over the whole session
MaxFrames == 2

\* millisecond clock readings
MaxTime == 1

\* millisecond clock readings of the REST calls
MaxRestTime == 2

(* ----------------------------- constants ------------------------------ *)

None == "None"

PublicUrl == <<"wss:", "x", "public">>

PrivateUrl == <<"wss:", "x", "private">>

Urls == {PublicUrl, PrivateUrl}

\* the topic lists the session may be configured with, per URL
TopicsFor(url) == IF url = PrivateUrl THEN <<"T2", "T3">> ELSE <<"T1">>

Configs == {[u \in S |-> TopicsFor(u)] : S \in SUBSET Urls}

Keys == {None, "K"}

Secrets == {None, "S"}

Times == 1..MaxTime

RestTimes == 1..MaxRestTime

VARIABLES
    topics_by_url,  \* the session's mapping url -> topics
    woo_key,        \* API key or None
    woo_secret,     \* API secret or None
    pc,             \* each listener's position in _listener
    websocket,      \* each listener's current connection (0: none)
    sub,            \* each listener's count of topics subscribed so far
    conns,          \* the live connections, as [url, id]
    nopen,          \* per url, the connections established so far
    sent,           \* per url, the frames written on its current connection
    rcvd,           \* the data frames read so far, as [url, raw]
    npings,         \* per url, the pings read on its current connection
    nframes,        \* the number of frames read so far
    log,            \* the last warning logged, as [url, kind], the kind
                    \* being "closed" or the exception caught
    msg_queue,      \* the shared queue
    worker,         \* the worker thread: "Alive" or "Done"
    cpc,            \* the consumer's position in recv_all
    yielded,        \* the values yielded to the caller, in order
    rest_url,       \* the URL of the REST call
    rest_params,    \* the **params of the REST call, as items in insertion order
    requests_sent,  \* the HTTP requests handed to requests, in order
    raised          \* the exception the REST call raised to its caller, or None

vars == <<topics_by_url, woo_key, woo_secret, pc, websocket, sub, conns, nopen,
          sent, rcvd, npings, nframes, log, msg_queue, worker, cpc, yielded,
          rest_url, rest_params, requests_sent, raised>>

config == <<topics_by_url, woo_key, woo_secret>>

listenerVars == <<pc, websocket, sub, conns, nopen, sent, rcvd, npings, nframes,
                  log>>

\* the state of a call of get, post or delete
restVars == <<rest_url, rest_params, requests_sent, raised>>

Listeners == DOMAIN topics_by_url

(* ------------------------------ helpers ------------------------------- *)

\* Python's `needle in hay` on strings, the strings being token sequences
IsIn(needle, hay) ==
    \E i \in 0..(Len(hay) - Len(needle)) :
        SubSeq(hay, i + 1, i + Len(needle)) = needle

\* str(n) for the clock readings of the model
ToStr(n) ==
    CASE n = 0 -> "0" [] n = 1 -> "1" [] n = 2 -> "2" [] n = 3 -> "3"
      [] n = 4 -> "4" [] n = 5 -> "5" [] n = 6 -> "6" [] n = 7 -> "7"
      [] n = 8 -> "8" [] OTHER -> "9"

\* a str value and an int value, each with the text str() gives for it
StrValue(text) == [type |-> "str", text |-> text]

IntValue(digits) == [type |-> "int", text |-> digits]

\* f'{value}': the text of the value, whatever its type
Format(value) == value.text

RECURSIVE JoinParams(_)
\* '&'.join(f'{key}={value}' ...): the texts are concatenated, nothing in
\* them is escaped
JoinParams(params) ==
    IF params = <<>> THEN <<>>
    ELSE IF Len(params) = 1
    THEN params[1][1] \o <<"=">> \o Format(params[1][2])
    ELSE params[1][1] \o <<"=">> \o Format(params[1][2]) \o <<"&">>
             \o JoinParams(Tail(params))

\* hmac.new(key, msg, sha256).hexdigest().upper(), taken as collision free
HmacSha256Hex(key, msg) == <<"HMAC-SHA256", key>> \o msg

\* CanonicalString without the timestamp
CanonicalString_NoTime(time_ms, sorted_params) ==
    JoinParams(sorted_params) \o <<"|">>

\* msg = f"{query_string}|{time_ms}"
CanonicalString(time_ms, sorted_params) ==
    JoinParams(sorted_params) \o <<"|", ToStr(time_ms)>>

_get_signature(time_ms, secret, sorted_params) ==
    HmacSha256Hex(secret, CanonicalString(time_ms, sorted_params))

\* ord(c) for the characters of the parameter keys
Ord(c) == CASE c = "a" -> 97 [] c = "b" -> 98 [] OTHER -> 99

RECURSIVE StrLess(_, _)
\* s < t on str: lexicographic, by code point
StrLess(s, t) ==
    IF t = <<>> THEN FALSE
    ELSE IF s = <<>> THEN TRUE
    ELSE IF s[1] = t[1] THEN StrLess(Tail(s), Tail(t))
    ELSE Ord(s[1]) < Ord(t[1])

\* x < y on the items of a dict: tuples compare by their first components,
\* and the keys of a dict are distinct
ItemLess(x, y) == StrLess(x[1], y[1])

RECURSIVE Insert(_, _)
\* x put in its place in a sorted list
Insert(x, items) ==
    IF items = <<>> THEN <<x>>
    ELSE IF ItemLess(x, items[1]) THEN <<x>> \o items
    ELSE <<items[1]>> \o Insert(x, Tail(items))

\* sorted leaving the items in insertion order
sorted_Unsorted(items) == items

RECURSIVE sorted(_)
\* sorted(params.items())
sorted(items) ==
    IF items = <<>> THEN <<>>
    ELSE Insert(items[Len(items)], sorted(SubSeq(items, 1, Len(items) - 1)))

\* a dict, as its items in insertion order
Dict(items) == [type |-> "dict", items |-> items]

\* _get_headers, time_ms being the reading of the clock
_get_headers(key, secret, params, time_ms) ==
    Dict(<<<<"Content-Type", "application/x-www-form-urlencoded">>,
           <<"x-api-key", key>>,
           <<"x-api-signature", _get_signature(time_ms, secret, sorted(params))>>,
           <<"x-api-timestamp", ToStr(time_ms)>>>>)

\* no exception
NotRaised == [type |-> None, items |-> <<>>]

\* ValueError(f'The {what} is required for the private endpoint {url}.')
ValueError(what) == [type |-> "ValueError", items |-> <<<<"required", what>>>>]

_get_auth_message(key, secret, time_ms) ==
    [event |-> "auth",
     params |-> [apikey |-> key,
                 sign |-> _get_signature(time_ms, secret, <<>>),
                 timestamp |-> ToStr(time_ms)]]

\* _headers taking a URL for public when it does not contain "private"
_headers_UnlessPrivate(url, key, secret, params, time_ms) ==
    IF ~IsIn(<<"private">>, url) THEN Dict(<<>>)
    ELSE IF key = None THEN ValueError("API Key")
    ELSE IF secret = None THEN ValueError("API Secret")
    ELSE _get_headers(key, secret, params, time_ms)

\* _headers(url, woo_key, woo_secret, **params), time_ms being the reading
\* of the clock in _get_headers: the headers, or the exception raised
_headers(url, key, secret, params, time_ms) ==
    IF IsIn(<<"public">>, url) THEN Dict(<<>>)
    ELSE IF key = None THEN ValueError("API Key")
    ELSE IF secret = None THEN ValueError("API Secret")
    ELSE _get_headers(key, secret, params, time_ms)

SubscribeFrame(topic) == [topic |-> topic, event |-> "subscribe"]

PongFrame == [event |-> "pong"]

(* --------------------------- inbound frames --------------------------- *)

PingText == "{\"event\":\"ping\"}"

StrPingText == "\"ping\""

BadText == "{\"event\":"

DataText(topic) ==
    CASE topic = "T1" -> "{\"topic\":\"T1\",\"data\":1}"
      [] topic = "T2" -> "{\"topic\":\"T2\",\"data\":1}"
      [] OTHER -> "{\"topic\":\"T3\",\"data\":1}"

\* the texts a server may send on a connection to url
Inbound(url) ==
    {PingText, BadText, DataText(TopicsFor(url)[1])}
        \cup (IF url = PublicUrl THEN {StrPingText} ELSE {})

JSONDecodeError == [type |-> "JSONDecodeError", items |-> <<>>]

\* json_loads taking a text that is not JSON for a string
json_loads_Lenient(text) ==
    CASE text = PingText -> [type |-> "dict", items |-> <<<<"event", "ping">>>>]
      [] text = StrPingText -> [type |-> "str", items |-> <<<<"", "ping">>>>]
      [] text = DataText("T1") ->
            [type |-> "dict", items |-> <<<<"topic", "T1">>, <<"data", "1">>>>]
      [] text = DataText("T2") ->
            [type |-> "dict", items |-> <<<<"topic", "T2">>, <<"data", "1">>>>]
      [] text = DataText("T3") ->
            [type |-> "dict", items |-> <<<<"topic", "T3">>, <<"data", "1">>>>]
      [] OTHER -> [type |-> "str", items |-> <<<<"", text>>>>]

\* json.loads on the texts above: a dict is its items, a string its text
json_loads(text) ==
    CASE text = PingText -> [type |-> "dict", items |-> <<<<"event", "ping">>>>]
      [] text = StrPingText -> [type |-> "str", items |-> <<<<"", "ping">>>>]
      [] text = DataText("T1") ->
            [type |-> "dict", items |-> <<<<"topic", "T1">>, <<"data", "1">>>>]
      [] text = DataText("T2") ->
            [type |-> "dict", items |-> <<<<"topic", "T2">>, <<"data", "1">>>>]
      [] text = DataText("T3") ->
            [type |-> "dict", items |-> <<<<"topic", "T3">>, <<"data", "1">>>>]
      [] OTHER -> JSONDecodeError

\* obj.get(key)
DictGet(obj, key) ==
    IF \E i \in 1..Len(obj.items) : obj.items[i][1] = key
    THEN obj.items[CHOOSE i \in 1..Len(obj.items) : obj.items[i][1] = key][2]
    ELSE None

\* IsPing looking the event up under the wrong key
IsPing_WrongKey(obj) == obj.type = "dict" /\ DictGet(obj, "topic") = "ping"

\* isinstance(obj, dict) and obj.get('event') == 'ping'
IsPing(obj) == obj.type = "dict" /\ DictGet(obj, "event") = "ping"

(* ------------------------------- Init --------------------------------- *)

Init ==
    /\ topics_by_url \in Configs
    /\ woo_key \in Keys
    /\ woo_secret \in Secrets
    /\ pc = [u \in DOMAIN topics_by_url |-> "Connecting"]
    /\ websocket = [u \in DOMAIN topics_by_url |-> 0]
    /\ sub = [u \in DOMAIN topics_by_url |-> 0]
    /\ conns = {}
    /\ nopen = [u \in DOMAIN topics_by_url |-> 0]
    /\ sent = [u \in DOMAIN topics_by_url |-> <<>>]
    /\ rcvd = <<>>
    /\ npings = [u \in DOMAIN topics_by_url |-> 0]
    /\ nframes = 0
    /\ log = [url |-> <<>>, kind |-> None]
    /\ msg_queue = <<>>
    /\ worker = "Alive"
    /\ cpc = "Check"
    /\ yielded = <<>>
    /\ rest_url = <<>>
    /\ rest_params = <<>>
    /\ requests_sent = <<>>
    /\ raised = NotRaised

(* ------------------------ _listener: handlers ------------------------- *)

\* Discard taking the connections of all the listeners down
Discard_All(u) ==
    /\ conns' = {}
    /\ websocket' = [v \in DOMAIN websocket |-> 0]
    /\ sub' = [v \in DOMAIN sub |-> 0]
    /\ sent' = [v \in DOMAIN sent |-> <<>>]
    /\ npings' = [v \in DOMAIN npings |-> 0]

\* Discard leaving the connection among the live ones
Discard_Leak(u) ==
    /\ conns' = conns
    /\ websocket' = [websocket EXCEPT ![u] = 0]
    /\ sub' = [sub EXCEPT ![u] = 0]
    /\ sent' = [sent EXCEPT ![u] = <<>>]
    /\ npings' = [npings EXCEPT ![u] = 0]

\* leaving the body of the async for: the websocket of listener u is no
\* longer live, and the body's state is gone
Discard(u) ==
    /\ conns' = conns \ {[url |-> u, id |-> websocket[u]]}
    /\ websocket' = [websocket EXCEPT ![u] = 0]
    /\ sub' = [sub EXCEPT ![u] = 0]
    /\ sent' = [sent EXCEPT ![u] = <<>>]
    /\ npings' = [npings EXCEPT ![u] = 0]

\* ExceptConnectionClosed outside the async for: the listener returns
ExceptConnectionClosed_Return(u) ==
    /\ Discard(u)
    /\ log' = [url |-> u, kind |-> "closed"]
    /\ pc' = [pc EXCEPT ![u] = "Exited"]

\* ExceptConnectionClosed going on with the receive loop, no handshake
ExceptConnectionClosed_NoReplay(u) ==
    /\ Discard(u)
    /\ log' = [url |-> u, kind |-> "closed"]
    /\ pc' = [pc EXCEPT ![u] = "Recv"]

\* except ConnectionClosed: log a warning, continue with the next connection
ExceptConnectionClosed(u) ==
    /\ Discard(u)
    /\ log' = [url |-> u, kind |-> "closed"]
    /\ pc' = [pc EXCEPT ![u] = "Connecting"]

\* ExceptException outside the while True: the listener returns
ExceptException_Return(u, e) ==
    /\ Discard(u)
    /\ log' = [url |-> u, kind |-> e]
    /\ pc' = [pc EXCEPT ![u] = "Exited"]

\* except Exception, e being the exception caught: log a warning with the
\* exception, go round the outer while True
ExceptException(u, e) ==
    /\ Discard(u)
    /\ log' = [url |-> u, kind |-> e]
    /\ pc' = [pc EXCEPT ![u] = "Connecting"]

\* AfterHandshakeStep leaving the last topic out
AfterHandshakeStep_SkipLast(u, k) ==
    IF k < Len(topics_by_url[u]) - 1 THEN "Subscribe" ELSE "Recv"

\* the position after the auth step or after the k-th subscription
AfterHandshakeStep(u, k) ==
    IF k < Len(topics_by_url[u]) THEN "Subscribe" ELSE "Recv"

\* await websocket.send(frame), the k-th subscription being done after it:
\* written, or the transport reports the connection closed, or it fails
\* otherwise
Send(u, frame, k, next) ==
    \/ /\ sent' = [sent EXCEPT ![u] = Append(@, frame)]
       /\ sub' = [sub EXCEPT ![u] = k]
       /\ pc' = [pc EXCEPT ![u] = next]
       /\ UNCHANGED <<websocket, conns, npings, log>>
    \/ ExceptConnectionClosed(u)
    \/ ExceptException(u, "Exception")

\* Put on a queue of size one: enabled only while the queue is not full
Put_Bounded(obj) ==
    /\ Len(msg_queue) < 1
    /\ msg_queue' = Append(msg_queue, obj)

\* Put replacing what is queued
Put_Overwrite(obj) == msg_queue' = <<obj>>

\* msg_queue.put(obj)
Put(obj) == msg_queue' = Append(msg_queue, obj)

(* ------------------------- _listener: actions ------------------------- *)

RECURSIVE SumOver(_, _)
\* the sum of f over the set S
SumOver(f, S) ==
    IF S = {} THEN 0
    ELSE f[CHOOSE x \in S : TRUE] + SumOver(f, S \ {CHOOSE x \in S : TRUE})

\* the connections established so far
Opened == SumOver(nopen, Listeners)

\* async for websocket in connect(url): the next connection is established
Open(u) ==
    /\ pc[u] = "Connecting"
    /\ Opened < MaxOpens
    /\ nopen' = [nopen EXCEPT ![u] = @ + 1]
    /\ websocket' = [websocket EXCEPT ![u] = nopen[u] + 1]
    /\ conns' = conns \cup {[url |-> u, id |-> nopen[u] + 1]}
    /\ pc' = [pc EXCEPT ![u] = "Auth"]
    /\ UNCHANGED <<config, restVars, sub, sent, rcvd, npings, nframes, log, msg_queue, worker, cpc,
                   yielded>>

\* connect(url) raises instead of yielding a connection: the exception
\* leaves the async for and is caught by except Exception
ConnectFail(u) ==
    /\ pc[u] = "Connecting"
    /\ ExceptException(u, "Exception")
    /\ UNCHANGED <<config, restVars, nopen, rcvd, nframes, msg_queue, worker, cpc, yielded>>

\* Auth without the test of the credentials
Auth_NoCheck(u) ==
    /\ pc[u] = "Auth"
    /\ IF IsIn(<<"private">>, u)
       THEN \E t \in Times :
               Send(u, _get_auth_message(woo_key, woo_secret, t), 0,
                    AfterHandshakeStep(u, 0))
       ELSE /\ pc' = [pc EXCEPT ![u] = AfterHandshakeStep(u, 0)]
            /\ UNCHANGED <<websocket, conns, npings, log, sent, sub>>
    /\ UNCHANGED <<config, restVars, nopen, rcvd, nframes, msg_queue, worker, cpc,
                   yielded>>

\* if 'private' in url: check the credentials, send the auth frame
Auth(u) ==
    /\ pc[u] = "Auth"
    /\ IF IsIn(<<"private">>, u)
       THEN IF woo_key = None \/ woo_secret = None
            THEN ExceptException(u, "ValueError")
            ELSE \E t \in Times :
                    Send(u, _get_auth_message(woo_key, woo_secret, t), 0,
                         AfterHandshakeStep(u, 0))
       ELSE /\ pc' = [pc EXCEPT ![u] = AfterHandshakeStep(u, 0)]
            /\ UNCHANGED <<websocket, conns, npings, log, sent, sub>>
    /\ UNCHANGED <<config, restVars, nopen, rcvd, nframes, msg_queue, worker, cpc, yielded>>

\* for topic in topics: send the next subscribe frame
Subscribe(u) ==
    /\ pc[u] = "Subscribe"
    /\ Send(u, SubscribeFrame(topics_by_url[u][sub[u] + 1]), sub[u] + 1,
            AfterHandshakeStep(u, sub[u] + 1))
    /\ UNCHANGED <<config, restVars, nopen, rcvd, nframes, msg_queue, worker, cpc, yielded>>

\* the texts that are neither keepalive pings nor garbage
IsData(msg) == msg \notin {PingText, BadText}

\* msg = await websocket.recv(); obj = json.loads(msg); a ping is to be
\* answered, anything else is put on the queue
Recv(u) ==
    /\ pc[u] = "Recv"
    /\ nframes < MaxFrames
    /\ nframes' = nframes + 1
    /\ \E msg \in Inbound(u) :
          /\ rcvd' = IF IsData(msg) THEN Append(rcvd, [url |-> u, raw |-> msg])
                     ELSE rcvd
          /\ IF json_loads(msg) = JSONDecodeError
             THEN ExceptException(u, "JSONDecodeError") /\ UNCHANGED msg_queue
             ELSE IF IsPing(json_loads(msg))
             THEN /\ pc' = [pc EXCEPT ![u] = "Pong"]
                  /\ npings' = [npings EXCEPT ![u] = @ + 1]
                  /\ UNCHANGED <<websocket, conns, sub, sent, log, msg_queue>>
             ELSE /\ Put(json_loads(msg))
                  /\ UNCHANGED <<pc, websocket, conns, sub, sent, npings, log>>
    /\ UNCHANGED <<config, restVars, nopen, worker, cpc, yielded>>

\* await websocket.recv() raises: the connection is closed, or the
\* transport fails otherwise
RecvFail(u) ==
    /\ pc[u] = "Recv"
    /\ \/ ExceptConnectionClosed(u)
       \/ ExceptException(u, "Exception")
    /\ UNCHANGED <<config, restVars, nopen, rcvd, nframes, msg_queue, worker, cpc, yielded>>

\* Pong going back to the receive loop with nothing sent
Pong_NotSent(u) ==
    /\ pc[u] = "Pong"
    /\ pc' = [pc EXCEPT ![u] = "Recv"]
    /\ UNCHANGED <<config, restVars, websocket, sub, conns, nopen, sent, rcvd, npings,
                   nframes, log, msg_queue, worker, cpc, yielded>>

\* await websocket.send(json.dumps({'event': 'pong'}))
Pong(u) ==
    /\ pc[u] = "Pong"
    /\ Send(u, PongFrame, sub[u], "Recv")
    /\ UNCHANGED <<config, restVars, nopen, rcvd, nframes, msg_queue, worker, cpc, yielded>>

(* ------------------------ worker and consumer ------------------------- *)

\* GatherDone of a gather that does not return when given no tasks
GatherDone_NonEmpty ==
    /\ Listeners # {}
    /\ \A u \in Listeners : pc[u] = "Exited"

\* await asyncio.gather(*tasks) returns once every listener has returned
GatherDone == \A u \in Listeners : pc[u] = "Exited"

\* asyncio.run(task) returns and the worker thread ends
WorkerExit ==
    /\ worker = "Alive"
    /\ GatherDone
    /\ worker' = "Done"
    /\ UNCHANGED <<config, restVars, listenerVars, msg_queue, cpc, yielded>>

\* is_alive false as soon as the queue is empty
is_alive_WhileQueued == worker = "Alive" /\ msg_queue # <<>>

\* worker.is_alive()
is_alive == worker = "Alive"

\* while worker.is_alive():
Check ==
    /\ cpc = "Check"
    /\ cpc' = IF is_alive THEN "Get" ELSE "Ended"
    /\ UNCHANGED <<config, restVars, listenerVars, msg_queue, worker, yielded>>

\* QueueGet of a LIFO queue
QueueGet_Lifo(q) == [item |-> q[Len(q)], rest |-> SubSeq(q, 1, Len(q) - 1)]

\* msg_queue.get(): the value it returns and the queue it leaves
QueueGet(q) == [item |-> Head(q), rest |-> Tail(q)]

\* yield msg_queue.get(timeout=1)
Get ==
    /\ cpc = "Get"
    /\ msg_queue # <<>>
    /\ yielded' = Append(yielded, QueueGet(msg_queue).item)
    /\ msg_queue' = QueueGet(msg_queue).rest
    /\ cpc' = "Check"
    /\ UNCHANGED <<config, restVars, listenerVars, worker>>

\* except queue.Empty: continue
GetTimeout ==
    /\ cpc = "Get"
    /\ msg_queue = <<>>
    /\ cpc' = "Check"
    /\ UNCHANGED <<config, restVars, listenerVars, msg_queue, worker, yielded>>

(* ------------------------------- REST --------------------------------- *)

\* the URLs of the REST calls: "public" in the path, in the host, nowhere
RestUrls ==
    {<<"https:", "x", "v1", "public", "info">>,
     <<"https:", "public", "x", "v1", "order">>,
     <<"https:", "x", "v1", "order">>}

ParamKeys == {<<"a">>, <<"b">>}

\* the values of the parameters: texts with and without the characters the
\* query string is built with, and an int
ParamValues ==
    {StrValue(<<"1">>), IntValue(<<"1">>), StrValue(<<"2">>),
     StrValue(<<"1", "&", "b", "=", "2">>),
     StrValue(<<"2", "&", "b", "=", "2">>),
     StrValue(<<"1", "|", "1", "=", "1">>)}

\* the ways of listing the set S without repetition
Orders(S) ==
    {o \in [1..Cardinality(S) -> S] : \A i, j \in DOMAIN o : i # j => o[i] # o[j]}

\* the **params a call may be given: every mapping of some of the keys to
\* values, in every insertion order
ParamItems ==
    UNION {{[i \in 1..Cardinality(DOMAIN d) |-> <<o[i], d[o[i]]>>] :
               o \in Orders(DOMAIN d)} :
           d \in UNION {[S -> ParamValues] : S \in SUBSET ParamKeys}}

\* the state of the listening session
streamVars == <<listenerVars, msg_queue, worker, cpc, yielded>>

\* a REST call is about to be made with some URL, credentials and parameters;
\* no listening session runs
RestInit ==
    /\ topics_by_url = [u \in {} |-> <<>>]
    /\ woo_key \in Keys
    /\ woo_secret \in Secrets
    /\ pc = [u \in {} |-> "Connecting"]
    /\ websocket = [u \in {} |-> 0]
    /\ sub = [u \in {} |-> 0]
    /\ conns = {}
    /\ nopen = [u \in {} |-> 0]
    /\ sent = [u \in {} |-> <<>>]
    /\ rcvd = <<>>
    /\ npings = [u \in {} |-> 0]
    /\ nframes = 0
    /\ log = [url |-> <<>>, kind |-> None]
    /\ msg_queue = <<>>
    /\ worker = "Alive"
    /\ cpc = "Check"
    /\ yielded = <<>>
    /\ rest_url \in RestUrls
    /\ rest_params \in ParamItems
    /\ requests_sent = <<>>
    /\ raised = NotRaised

\* requests.<method>(url, params=params, headers=_headers(url, woo_key,
\* woo_secret, **params)): the headers are evaluated first, and the request
\* is sent only if that did not raise
Request(method) ==
    /\ raised = NotRaised
    /\ requests_sent = <<>>
    /\ \E time_ms \in RestTimes :
          LET headers == _headers(rest_url, woo_key, woo_secret, rest_params,
                                  time_ms)
          IN  IF headers.type = "ValueError"
              THEN /\ raised' = headers
                   /\ UNCHANGED requests_sent
              ELSE /\ requests_sent' =
                        Append(requests_sent,
                               [method |-> method, url |-> rest_url,
                                params |-> rest_params, headers |-> headers])
                   /\ UNCHANGED raised
    /\ UNCHANGED <<config, streamVars, rest_url, rest_params>>

get == Request("GET")

post == Request("POST")

delete == Request("DELETE")

RestNext == get \/ post \/ delete

RestSpec == RestInit /\ [][RestNext]_vars

(* --------------------------- specification ---------------------------- *)

Consumer == Check \/ Get \/ GetTimeout

Next ==
    \/ \E u \in Listeners : Open(u)
    \/ \E u \in Listeners : ConnectFail(u)
    \/ \E u \in Listeners : Auth(u)
    \/ \E u \in Listeners : Subscribe(u)
    \/ \E u \in Listeners : Recv(u)
    \/ \E u \in Listeners : RecvFail(u)
    \/ \E u \in Listeners : Pong(u)
    \/ WorkerExit
    \/ Check
    \/ Get
    \/ GetTimeout

Spec == Init /\ [][Next]_vars

\* the consumer keeps iterating, and the worker thread, once asyncio.run
\* can return, ends
FairSpec == Spec /\ WF_vars(Consumer) /\ WF_vars(WorkerExit)

TypeOK ==
    /\ \A u \in Listeners :
          pc[u] \in {"Connecting", "Auth", "Subscribe", "Recv", "Pong"}
    /\ worker \in {"Alive", "Done"}
    /\ cpc \in {"Check", "Get", "Ended"}

(* ------------------------------ claims -------------------------------- *)

\* the endpoints that require authentication
Private(u) == u = PrivateUrl

CredentialMissing == woo_key = None \/ woo_secret = None

\* a decoded value that is a mapping whose event is "ping"
LooksLikePing(obj) ==
    /\ obj.type = "dict"
    /\ \E j \in 1..Len(obj.items) : obj.items[j] = <<"event", "ping">>

\* the merged output so far: what was yielded, then what is queued
Output == yielded \o msg_queue

\* the number of pong frames written on the current connection of u
Pongs(u) == Cardinality({j \in 1..Len(sent[u]) : sent[u][j].event = "pong"})

\* the number of frames of the handshake of u
HandshakeLen(u) == (IF Private(u) THEN 1 ELSE 0) + Len(topics_by_url[u])

\* the frames written on the current connection of u are its whole
\* handshake: the auth frame if u is private, then a subscribe frame for each
\* topic in turn, and after them pongs only
HandshakeComplete(u) ==
    /\ Len(sent[u]) >= HandshakeLen(u)
    /\ Private(u) => /\ sent[u][1].event = "auth"
                     /\ sent[u][1].params.apikey = woo_key
    /\ \A k \in 1..Len(topics_by_url[u]) :
          sent[u][HandshakeLen(u) - Len(topics_by_url[u]) + k]
              = [topic |-> topics_by_url[u][k], event |-> "subscribe"]
    /\ \A j \in (HandshakeLen(u) + 1)..Len(sent[u]) : sent[u][j] = [event |-> "pong"]

\* C1: no value of the merged output, queued or yielded, is a ping control
\* frame, for any endpoint and after any reconnects.
C1_NoPingOnQueue == \A i \in 1..Len(Output) : ~LooksLikePing(Output[i])

\* a listener on its second connection has read a ping and answered it, and
\* the output holds a value
C1_Witness ==
    /\ Output # <<>>
    /\ \E u \in Listeners : nopen[u] >= 2 /\ npings[u] >= 1 /\ Pongs(u) >= 1

\* C2 as stated: a ping read on a connection is always answered with a pong
\* on that connection, also when the transport reports the connection closed
\* while the pong is sent: the step that ends the answering writes the pong.
C2_PingAlwaysAnswered ==
    [][\A u \in Listeners :
          (pc[u] = "Pong" /\ pc'[u] # "Pong")
              => sent'[u] = Append(sent[u], [event |-> "pong"])]_vars

\* C2 amended: whenever a listener is about to read a frame, it has written
\* as many pongs on the connection as it has read pings from it; and the
\* answering of a ping ends either with one pong written on that connection
\* or, the send having failed, with the connection dropped and nothing
\* written, so that no frame is read from it any more.
C2_PingAnsweredUnlessClosed ==
    /\ [](\A u \in Listeners :
            /\ pc[u] = "Recv" => Pongs(u) = npings[u]
            /\ pc[u] = "Pong" => Pongs(u) + 1 = npings[u])
    /\ [][\A u \in Listeners :
            (pc[u] = "Pong" /\ pc'[u] # "Pong")
                => \/ /\ sent'[u] = Append(sent[u], [event |-> "pong"])
                      /\ pc'[u] = "Recv"
                      /\ websocket'[u] = websocket[u]
                      /\ conns' = conns
                   \/ /\ sent'[u] = <<>>
                      /\ pc'[u] = "Connecting"
                      /\ websocket'[u] = 0
                      /\ [url |-> u, id |-> websocket[u]] \notin conns']_vars

\* a ping has been read and answered, and the listener is about to read
C2_Witness ==
    \E u \in Listeners : pc[u] = "Recv" /\ npings[u] >= 1 /\ Pongs(u) = npings[u]

\* C3: a connection that ends (closed or failed) leaves its listener waiting
\* for a new connection; the new connection starts with nothing written; and
\* a message is put on the queue only by a listener whose current connection
\* has had the whole handshake written on it.
C3_ReplayBeforeForward ==
    [][/\ \A u \in Listeners :
             /\ (websocket[u] # 0 /\ websocket'[u] # websocket[u])
                   => (pc'[u] = "Connecting" /\ websocket'[u] = 0)
             /\ (pc[u] = "Connecting" /\ pc'[u] # "Connecting")
                   => /\ pc'[u] = "Auth"
                      /\ websocket'[u] = nopen[u] + 1
                      /\ nopen'[u] = nopen[u] + 1
                      /\ sent'[u] = <<>>
       /\ Len(msg_queue') > Len(msg_queue)
             => /\ Len(rcvd') = Len(rcvd) + 1
                /\ websocket[rcvd'[Len(rcvd')].url] # 0
                /\ HandshakeComplete(rcvd'[Len(rcvd')].url)]_vars

\* after a ConnectionClosed, a listener is reading on its second connection,
\* the whole handshake written on it
C3_Witness ==
    \E u \in Listeners :
        /\ log = [url |-> u, kind |-> "closed"]
        /\ nopen[u] = 2
        /\ pc[u] = "Recv"
        /\ HandshakeComplete(u)
        /\ Len(rcvd) > 0 /\ rcvd[Len(rcvd)].url = u

\* C4: no connection to a private URL is ever established while the API key
\* or the API secret is absent.
C4_NoSocketWithoutCredential ==
    \A u \in Listeners : (Private(u) /\ CredentialMissing) => nopen[u] = 0

\* C5: no listener ever returns, and every connection that ends and every
\* warning logged, on a closure or on any other failure, leaves its listener
\* attempting a new connection.
C5_ListenerNeverTerminates ==
    /\ [](\A u \in Listeners : pc[u] # "Exited")
    /\ [][/\ \A u \in Listeners :
               (websocket[u] # 0 /\ websocket'[u] = 0) => pc'[u] = "Connecting"
          /\ log' # log => pc'[log'.url] = "Connecting"]_vars

\* a listener is on a new connection after an unexpected failure
C5_Witness ==
    \E u \in Listeners :
        /\ log = [url |-> u, kind |-> "Exception"]
        /\ nopen[u] = 2
        /\ pc[u] = "Auth"

C9_HandshakeOrder ==
    \A u \in Listeners :
        /\ \A j \in 1..Len(sent[u]) :
              /\ (sent[u][j].event = "auth") = (Private(u) /\ j = 1)
              /\ (sent[u][j].event = "subscribe")
                    = (j > HandshakeLen(u) - Len(topics_by_url[u])
                         /\ j <= HandshakeLen(u))
              /\ sent[u][j].event = "subscribe"
                    => sent[u][j].topic
                         = topics_by_url[u][j - HandshakeLen(u)
                                              + Len(topics_by_url[u])]
        /\ pc[u] \in {"Recv", "Pong"} => HandshakeComplete(u)
        /\ npings[u] > 0 => pc[u] \in {"Recv", "Pong"}

\* the private listener and the public one are both reading
C9_Witness ==
    /\ Listeners = Urls
    /\ \A u \in Listeners : pc[u] = "Recv" /\ Len(sent[u]) = HandshakeLen(u)

\* the data frames read so far, decoded, in the order they were read
Forwarded == [i \in 1..Len(rcvd) |-> json_loads(rcvd[i].raw)]

\* the number of places of seq that hold v
Count(seq, v) == Cardinality({i \in 1..Len(seq) : seq[i] = v})

\* the endpoints a value equal to v was read from
Origins(v) == {rcvd[i].url : i \in {j \in 1..Len(rcvd) : json_loads(rcvd[j].raw) = v}}

\* C7: every frame that decodes to something other than a ping is in the
\* merged output exactly as often as it was read, unchanged; every value of
\* the output was read from exactly one endpoint; and a consumer that keeps
\* iterating is yielded every one of them: for every n, once n such frames
\* have been read, n values are eventually yielded (the two counts never
\* decrease, so this is: again and again, fewer than n are read or n are
\* yielded).
C7_DeliveredExactlyOnce ==
    /\ [](/\ \A i \in 1..Len(Forwarded) :
                Count(Output, Forwarded[i]) = Count(Forwarded, Forwarded[i])
          /\ Len(Output) = Len(Forwarded)
          /\ \A i \in 1..Len(Output) : Cardinality(Origins(Output[i])) = 1)
    /\ \A n \in 1..MaxFrames : []<>(Len(rcvd) < n \/ Len(yielded) >= n)

\* two endpoints run, and the consumer has been yielded a message of each
C7_Witness ==
    /\ Listeners = Urls
    /\ Len(yielded) >= 2
    /\ \A u \in Urls : \E i \in 1..Len(yielded) : Origins(yielded[i]) = {u}

\* C8: the values yielded, followed by the values queued, are the values
\* forwarded, in the order they were read and put on the queue.
C8_Fifo == Output = Forwarded

\* the consumer has been yielded two different messages of one connection
C8_Witness ==
    /\ Len(yielded) >= 2
    /\ yielded[1] # yielded[2]
    /\ rcvd[1].url = rcvd[2].url

\* C10: the consumer's iteration has ended only if every listener has
\* returned (and the worker with them).
C10_EndOnlyWhenAllExited ==
    cpc = "Ended" => (worker = "Done" /\ \A u \in Listeners : pc[u] = "Exited")

\* the iteration has ended
C10_Witness == cpc = "Ended" /\ worker = "Done"

\* a step in which the connection of listener u ends or a warning is logged
\* for it
Failure(u) ==
    \/ websocket[u] # 0 /\ websocket'[u] = 0
    \/ log' # log /\ log'.url = u

\* C13: a closure, a decode error, a transport exception or a missing
\* credential in a listener is logged by that listener, which goes on to a
\* new connection; the step leaves the worker, the consumer's position, the
\* queue and what was yielded as they were; and while there are listeners the
\* worker stays alive and the iteration does not end.
C13_FailuresAbsorbed ==
    /\ [](Listeners # {} => (worker = "Alive" /\ cpc # "Ended"))
    /\ [][\A u \in Listeners :
            Failure(u)
              => /\ log'.url = u
                 /\ log'.kind \in {"closed", "JSONDecodeError", "Exception",
                                   "ValueError"}
                 /\ pc'[u] = "Connecting"
                 /\ worker' = worker
                 /\ cpc' = cpc
                 /\ msg_queue' = msg_queue
                 /\ yielded' = yielded]_vars

\* the consumer, having been yielded a message, is waiting for the next one
\* after a listener has logged a decode error
C13_Witness ==
    /\ log.kind = "JSONDecodeError"
    /\ worker = "Alive"
    /\ cpc = "Get"
    /\ Len(yielded) >= 1

\* C14: a step in which the connection of one listener ends, fails or is
\* replaced by a new one leaves every other listener where it was, with its
\* connection, its handshake progress and the frames written on it, and
\* leaves the queue as it was.
C14_IndependentListeners ==
    [][\A u \in Listeners :
          (Failure(u) \/ websocket'[u] # websocket[u])
            => /\ \A v \in Listeners \ {u} :
                     /\ pc'[v] = pc[v]
                     /\ websocket'[v] = websocket[v]
                     /\ nopen'[v] = nopen[v]
                     /\ sub'[v] = sub[v]
                     /\ sent'[v] = sent[v]
                     /\ npings'[v] = npings[v]
                     /\ {c \in conns' : c.url = v} = {c \in conns : c.url = v}
               /\ msg_queue' = msg_queue]_vars

\* listener u reads a message and puts it on the queue
Forward(u) == Recv(u) /\ msg_queue' # msg_queue

\* listener u reads a ping
ReadPing(u) == Recv(u) /\ pc'[u] = "Pong"

\* C15: whatever the queue holds, and wherever the consumer is, a listener
\* that is reading (and has a frame left to read) can read a message and put
\* it on the queue and can read a ping, and a listener that has read a ping
\* can answer it.
C15_NeverBlocked ==
    \A u \in Listeners :
        /\ (pc[u] = "Recv" /\ nframes < MaxFrames)
              => (ENABLED Forward(u) /\ ENABLED ReadPing(u))
        /\ pc[u] = "Pong" => ENABLED Pong(u)

\* the consumer has not taken a step, a message is queued, and a listener is
\* reading with a frame left to read
C15_Witness ==
    /\ cpc = "Check"
    /\ yielded = <<>>
    /\ msg_queue # <<>>
    /\ nframes < MaxFrames
    /\ \E u \in Listeners : pc[u] = "Recv"

\* C16: the listener of a private URL with the key or the secret missing
\* never returns and never gets past the credential test: each connection
\* ends there with the ValueError logged and the listener attempting a new
\* connection, which it can establish (while the model lets connections be
\* established); nothing is ever written on its connections, and no message
\* of that endpoint is read or put on the queue.
C16_MissingCredentialRetries ==
    /\ [](\A u \in Listeners :
             (Private(u) /\ CredentialMissing)
               => /\ pc[u] \in {"Connecting", "Auth"}
                  /\ sent[u] = <<>>
                  /\ sub[u] = 0
                  /\ \A i \in 1..Len(rcvd) : rcvd[i].url # u
                  /\ (pc[u] = "Connecting" /\ Opened < MaxOpens)
                        => ENABLED Open(u))
    /\ [][\A u \in Listeners :
            (Private(u) /\ CredentialMissing /\ pc[u] = "Auth" /\ pc'[u] # "Auth")
              => /\ pc'[u] = "Connecting"
                 /\ websocket'[u] = 0
                 /\ log' = [url |-> u, kind |-> "ValueError"]
                 /\ msg_queue' = msg_queue]_vars

\* the listener of the private URL, the secret missing, has failed on two
\* connections and attempts a third
C16_Witness ==
    \E u \in Listeners :
        /\ Private(u) /\ woo_key # None /\ woo_secret = None
        /\ nopen[u] = 2
        /\ pc[u] = "Connecting"
        /\ log = [url |-> u, kind |-> "ValueError"]

\* the state of listener u after its connection has been abandoned
Abandoned(u) ==
    /\ pc'[u] = "Connecting"
    /\ websocket'[u] = 0
    /\ sub'[u] = 0
    /\ sent'[u] = <<>>
    /\ npings'[u] = 0
    /\ [url |-> u, id |-> websocket[u]] \notin conns'
    /\ log'.url = u
    /\ msg_queue' = msg_queue

\* C17: a failure in the receive loop, whether ConnectionClosed or any other
\* exception, abandons the connection, puts nothing on the queue and leaves
\* the listener attempting a new connection with nothing of the handshake
\* done, the same but for the warning logged; a frame read is either put on
\* the queue decoded, or a ping to be answered, or undecodable, and then the
\* decode error is logged and the connection abandoned with nothing put on
\* the queue; and whatever is put on the queue comes from a connection with
\* the whole handshake written on it.
C17_UnexpectedFailureRetries ==
    [][/\ \A u \in Listeners :
             (pc[u] \in {"Recv", "Pong"} /\ websocket'[u] # websocket[u])
                => (Abandoned(u) /\ log'.kind # None)
       /\ nframes' = nframes + 1
             => \E u \in Listeners :
                   /\ pc[u] = "Recv"
                   /\ \/ /\ Len(rcvd') = Len(rcvd) + 1
                         /\ rcvd'[Len(rcvd')].url = u
                         /\ json_loads(rcvd'[Len(rcvd')].raw) # JSONDecodeError
                         /\ msg_queue'
                               = Append(msg_queue, json_loads(rcvd'[Len(rcvd')].raw))
                         /\ HandshakeComplete(u)
                         /\ websocket'[u] = websocket[u]
                         /\ pc'[u] = "Recv"
                      \/ /\ rcvd' = rcvd
                         /\ msg_queue' = msg_queue
                         /\ pc'[u] = "Pong"
                         /\ websocket'[u] = websocket[u]
                      \/ /\ rcvd' = rcvd
                         /\ Abandoned(u)
                         /\ log'.kind = "JSONDecodeError"
       /\ msg_queue' # msg_queue /\ Len(msg_queue') >= Len(msg_queue)
             => nframes' = nframes + 1]_vars

\* after a decode error a listener is reading on its second connection, the
\* whole handshake written on it
C17_Witness ==
    \E u \in Listeners :
        /\ log = [url |-> u, kind |-> "JSONDecodeError"]
        /\ nopen[u] = 2
        /\ websocket[u] = 2
        /\ pc[u] = "Recv"
        /\ HandshakeComplete(u)

\* C19: with no endpoint, nothing is ever queued or yielded and the
\* iteration of a consumer that keeps iterating ends, the worker having
\* finished (the iteration, once ended, stays ended, so this is: again and
\* again there is an endpoint or the iteration has ended); with at least one
\* endpoint the worker never finishes and the iteration never ends.
C19_EndsIffNoEndpoint ==
    /\ [](Listeners = {} => (msg_queue = <<>> /\ yielded = <<>>))
    /\ [](Listeners = {} => ENABLED WorkerExit \/ worker = "Done")
    /\ []<>(Listeners # {} \/ (cpc = "Ended" /\ worker = "Done"))
    /\ [](Listeners # {} => (cpc # "Ended" /\ worker = "Alive"))

\* with no endpoint, the iteration has ended after one poll of the queue
C19_Witness ==
    /\ Listeners = {}
    /\ cpc = "Ended"
    /\ worker = "Done"
    /\ yielded = <<>>

\* one listener is on its second connection after a failure while the other
\* is reading on its first, a message queued
C14_Witness ==
    /\ Listeners = Urls
    /\ log.url = PrivateUrl
    /\ nopen[PrivateUrl] = 2
    /\ websocket[PrivateUrl] = 2
    /\ websocket[PublicUrl] = 1
    /\ pc[PublicUrl] = "Recv"
    /\ HandshakeComplete(PublicUrl)
    /\ msg_queue # <<>>

\* the URL of the REST call contains "public"
RestPublic == IsIn(<<"public">>, rest_url)

\* the names of the headers of a request, in order
HeaderNames(request) ==
    [i \in 1..Len(request.headers.items) |-> request.headers.items[i][1]]

\* the request carries the four headers of a signed request, for the key of
\* the call and some reading of the clock
Signed(request) ==
    /\ HeaderNames(request) = <<"Content-Type", "x-api-key", "x-api-signature",
                                "x-api-timestamp">>
    /\ DictGet(request.headers, "Content-Type")
           = "application/x-www-form-urlencoded"
    /\ DictGet(request.headers, "x-api-key") = woo_key
    /\ \E t \in RestTimes :
          /\ DictGet(request.headers, "x-api-timestamp") = ToStr(t)
          /\ DictGet(request.headers, "x-api-signature")
                 = _get_signature(t, woo_secret, sorted(rest_params))

\* C11: a call of get, post or delete with a URL containing "public" sends
\* its request with no headers, whatever the credentials; with any other URL
\* it raises a ValueError and sends nothing if the key or the secret is
\* None, and otherwise sends its request with the four signed headers.
C11_RestHeaders ==
    /\ [][IF RestPublic
          THEN /\ raised' = NotRaised
               /\ Len(requests_sent') = 1
               /\ requests_sent'[1].headers.items = <<>>
          ELSE IF CredentialMissing
          THEN /\ raised'.type = "ValueError"
               /\ requests_sent' = <<>>
          ELSE /\ raised' = NotRaised
               /\ Len(requests_sent') = 1
               /\ Signed(requests_sent'[1])]_vars
    /\ [](\A i \in 1..Len(requests_sent) :
             /\ requests_sent[i].url = rest_url
             /\ requests_sent[i].params = rest_params
             /\ requests_sent[i].method \in {"GET", "POST", "DELETE"})

\* a call with a URL that is not public and a credential missing has raised
C11_Witness ==
    /\ ~RestPublic
    /\ woo_key # None /\ woo_secret = None
    /\ raised = ValueError("API Secret")
    /\ requests_sent = <<>>

\* the items of a mapping, as a set
ItemSet(items) == {items[i] : i \in 1..Len(items)}

\* the keys of a mapping
KeySet(items) == {items[i][1] : i \in 1..Len(items)}

\* the items are in ascending order of their keys
Ascending(items) ==
    \A i, j \in 1..Len(items) : i < j => StrLess(items[i][1], items[j][1])

\* the requests sent with signed headers
SignedRequests == {i \in 1..Len(requests_sent) : requests_sent[i].headers.items # <<>>}

\* C12: the signature of a request is the digest, under the secret, of
\* 'k1=v1&k2=v2...|timestamp' with the pairs in ascending order of their keys
\* (nothing before the '|' when there are no parameters), and every
\* re-ordering of the mapping gives the same signature for the same secret
\* and timestamp.
C12_SignatureOrderInvariant ==
    \A i \in SignedRequests :
        LET sig == DictGet(requests_sent[i].headers, "x-api-signature")
            ts == DictGet(requests_sent[i].headers, "x-api-timestamp")
        IN  /\ \E q \in ParamItems :
                  /\ ItemSet(q) = ItemSet(rest_params)
                  /\ Ascending(q)
                  /\ sig = <<"HMAC-SHA256", woo_secret>> \o JoinParams(q)
                               \o <<"|", ts>>
            /\ rest_params = <<>> => sig = <<"HMAC-SHA256", woo_secret, "|", ts>>
            /\ \A q \in ParamItems, t \in RestTimes :
                  (ItemSet(q) = ItemSet(rest_params) /\ ToStr(t) = ts)
                     => DictGet(_get_headers(woo_key, woo_secret, q, t),
                                "x-api-signature") = sig

\* a signed request has been sent for two parameters given in descending
\* order of their keys
C12_Witness ==
    /\ SignedRequests # {}
    /\ Len(rest_params) = 2
    /\ StrLess(rest_params[2][1], rest_params[1][1])

\* the canonical string of a mapping at a reading of the clock
Canonical(items, t) == CanonicalString(t, sorted(items))

\* the value of key k in a mapping
ValueOf(items, k) == DictGet(Dict(items), k)

\* the reading of the clock a signed request was made at
TimeOf(request) ==
    CHOOSE t \in RestTimes : DictGet(request.headers, "x-api-timestamp") = ToStr(t)

\* no text of a value of the mapping contains the character '&'
NoAmpersand(items) ==
    \A i \in 1..Len(items) : ~IsIn(<<"&">>, Format(items[i][2]))

\* C18 as stated: a mapping with the same keys as the one signed, and a
\* timestamp, that differ from what was signed in the text of a value or in
\* the timestamp never have the same canonical string, whatever characters
\* the values contain.
C18_DistinctInputsDistinctStrings ==
    \A i \in SignedRequests : \A q \in ParamItems, t \in RestTimes :
        (/\ KeySet(q) = KeySet(rest_params)
         /\ \/ t # TimeOf(requests_sent[i])
            \/ \E k \in KeySet(q) :
                  Format(ValueOf(q, k)) # Format(ValueOf(rest_params, k)))
           => Canonical(q, t) # Canonical(rest_params, TimeOf(requests_sent[i]))

\* C18 amended: two mappings with the same keys, none of whose values has a
\* text containing '&', and two timestamps, have the same canonical string
\* only if the timestamps are equal and every key has the same text for its
\* value in both; '=' and '|' in the values do no harm.
C18_DistinctTextsDistinctStrings ==
    \A i \in SignedRequests : \A q \in ParamItems, t \in RestTimes :
        (/\ KeySet(q) = KeySet(rest_params)
         /\ NoAmpersand(q) /\ NoAmpersand(rest_params)
         /\ \/ t # TimeOf(requests_sent[i])
            \/ \E k \in KeySet(q) :
                  Format(ValueOf(q, k)) # Format(ValueOf(rest_params, k)))
           => Canonical(q, t) # Canonical(rest_params, TimeOf(requests_sent[i]))

\* a request has been signed for two parameters one of which has '=' and '|'
\* in its value
C18_Witness ==
    /\ SignedRequests # {}
    /\ Len(rest_params) = 2
    /\ NoAmpersand(rest_params)
    /\ \E i \in 1..2 : IsIn(<<"|">>, Format(rest_params[i][2]))

====
